---------------------------- MODULE Spec2Model ----------------------------
(***************************************************************************)
(* The three lint passes of clippy_lints modelled as state machines driven *)
(* by the host compiler's callbacks:                                       *)
(*   ExternWithoutRepr   (extern_without_repr.rs)   -- SpecLayout          *)
(*   GuidelineLints      (guidelines/mod.rs)        -- SpecGuideline       *)
(*   ManualIsAsciiCheck  (manual_is_ascii_check.rs) -- SpecAscii, SpecPat  *)
(* Source text (snippets, configured names) is a sequence of one-character *)
(* strings, so that contains / split_once / split are computed, not        *)
(* assumed.                                                                *)
(***************************************************************************)
EXTENDS Integers, Sequences, FiniteSets, TLC

VARIABLES
    pc,                  \* position of the host's traversal
    item,                \* the hir::Item handed to ExternWithoutRepr::check_item
    findings,            \* what the last callback handed to the diagnostic sink
    mem_uns_fns,         \* GuidelineLints.mem_uns_fns (configured names)
    mem_uns_fns_ty_ids,  \* GuidelineLints.mem_uns_fns_ty_ids (DefIdSet)
    last,                \* the callback GuidelineLints ran last, with its input
    msrv,                \* ManualIsAsciiCheck.msrv
    expr,                \* the hir::Expr handed to ManualIsAsciiCheck::check_expr
    pat,                 \* the PatKind handed to check_pat
    range                \* the CharRange check_pat returned

vars == <<pc, item, findings, mem_uns_fns, mem_uns_fns_ty_ids, last, msrv, expr, pat, range>>

\* Option<T>: None is the empty sequence, Some(x) the one-element sequence.
None == <<>>
Some(x) == <<x>>

\* What a variable holds while its pass is not the one running.
NoItem == [kind |-> "None", abi |-> "None", explicit |-> FALSE, snippet |-> None,
           inputs |-> <<>>, items |-> <<>>]
NoCallback == [op |-> "new", kind |-> "None", callee |-> None, span |-> 0]
NoExpr == [macro |-> None, kind |-> "None", arms |-> <<>>, recv |-> None, in_const |-> FALSE]
\* PatKind::Wild, `_`
Wild == [kind |-> "Wild", start |-> None, end |-> None, end_kind |-> "None", pats |-> <<>>]

(***************************************************************************)
(* Bounds of the model.                                                    *)
(***************************************************************************)
MaxPtrDepth == 2     \* levels of pointer/reference indirection on a parameter
MaxParams == 1       \* parameters of one function signature
MaxItems == 1        \* foreign items of one foreign block
MaxNames == 2        \* configured dangerous-function names
MaxAlts == 3         \* alternatives of an or-pattern
MaxArms == 2         \* arms of a match expression

RECURSIVE SeqsUpTo(_, _)
SeqsUpTo(S, n) ==
    IF n = 0 THEN {<<>>}
    ELSE LET shorter == SeqsUpTo(S, n - 1)
         IN shorter \cup {Append(s, x) : s \in {t \in shorter : Len(t) = n - 1}, x \in S}

(***************************************************************************)
(* str::find / contains / split_once / split on character sequences.       *)
(***************************************************************************)
MatchAt(s, p, i) ==
    /\ i + Len(p) - 1 <= Len(s)
    /\ \A k \in 1..Len(p) : s[i + k - 1] = p[k]

Find(s, p) ==
    LET hits == {i \in 1..Len(s) : MatchAt(s, p, i)}
    IN IF hits = {} THEN 0 ELSE CHOOSE i \in hits : \A j \in hits : i <= j

str_contains(s, p) == Find(s, p) # 0

split_once(s, p) ==
    LET i == Find(s, p)
    IN IF i = 0 THEN <<>>
       ELSE <<[before |-> SubSeq(s, 1, i - 1), after |-> SubSeq(s, i + Len(p), Len(s))]>>

RECURSIVE str_split(_, _)
str_split(s, p) ==
    LET i == Find(s, p)
    IN IF i = 0 THEN <<s>>
       ELSE <<SubSeq(s, 1, i - 1)>> \o str_split(SubSeq(s, i + Len(p), Len(s)), p)

(***************************************************************************)
(* ExternWithoutRepr (extern_without_repr.rs)                              *)
(***************************************************************************)
\* The aggregate types of the analysed program, one per representation facet.
Adts == {"Plain", "ReprC", "Packed", "Transparent", "Aligned", "Simd"}

\* adt.repr(): the facets the host's type system reports for an aggregate.
repr(adt) ==
    [packed      |-> adt = "Packed",
     transparent |-> adt = "Transparent",
     c           |-> adt = "ReprC",
     simd        |-> adt = "Simd",
     align       |-> adt = "Aligned"]

\* A hir::Ty: `depth` layers of `*const` / `&` around a base type; a parameter
\* is passed by value or behind MaxPtrDepth layers.
HirTys == [depth : {0, MaxPtrDepth}, base : Adts \cup {"u32"}]

RECURSIVE walk_ptrs_hir_ty(_)
walk_ptrs_hir_ty(ty) ==
    IF ty.depth > 0 THEN walk_ptrs_hir_ty([ty EXCEPT !.depth = @ - 1]) ELSE ty

\* hir_ty_to_ty(..).ty_adt_def(): Some(adt) only for an aggregate that is not
\* behind a pointer.
ty_adt_def(ty) == IF ty.depth = 0 /\ ty.base \in Adts THEN Some(ty.base) ELSE None

\* cx.tcx.def_span(adt.did()): the span of the type's definition.
def_span(adt) == adt

msg == "Should use repr to specifing data layout when struct is used in FFI"

ExternFinding(adt) == [lint |-> "EXTERN_WITHOUT_REPR", span |-> def_span(adt), msg |-> msg]

outbound_repr_mut(r) == r.packed \/ r.transparent \/ r.align

\* line 57: the facets that excuse a type on the outbound-definition path
outbound_repr_ok(r) == r.packed \/ r.transparent \/ r.c \/ r.align

inbound_repr_mut(r) == r.packed \/ r.c \/ r.simd \/ r.align

\* lines 79-83: the facets that excuse a type on the inbound-declaration path
inbound_repr_ok(r) == r.packed \/ r.transparent \/ r.c \/ r.simd \/ r.align

\* lines 53-63: the loop over fn_sig.decl.inputs
RECURSIVE lint_fn_inputs(_, _)
lint_fn_inputs(inputs, i) ==
    IF i > Len(inputs) THEN <<>>
    ELSE LET adt == ty_adt_def(walk_ptrs_hir_ty(inputs[i]))
         IN (IF adt # None /\ ~outbound_repr_ok(repr(adt[1])) THEN <<ExternFinding(adt[1])>> ELSE <<>>)
            \o lint_fn_inputs(inputs, i + 1)

\* lines 75-90: the loop over decl.inputs of one foreign function
RECURSIVE lint_decl_inputs(_, _)
lint_decl_inputs(inputs, j) ==
    IF j > Len(inputs) THEN <<>>
    ELSE LET adt == ty_adt_def(walk_ptrs_hir_ty(inputs[j]))
         IN (IF adt # None /\ ~inbound_repr_ok(repr(adt[1])) THEN <<ExternFinding(adt[1])>> ELSE <<>>)
            \o lint_decl_inputs(inputs, j + 1)

\* lines 72-93: the loop over the foreign block's items
RECURSIVE lint_foreign_items(_, _)
lint_foreign_items(items, i) ==
    IF i > Len(items) THEN <<>>
    ELSE (IF items[i].kind = "Fn" THEN lint_decl_inputs(items[i].inputs, 1) ELSE <<>>)
         \o lint_foreign_items(items, i + 1)

ExternC == <<"e", "x", "t", "e", "r", "n", " ", "\"", "C", "\"">>
KwFn == <<"f", "n">>
DefaultSnip == <<".", ".">>

\* snippet(cx, span, default): the span's source text, or the default when the
\* host cannot recover it.
snippet_with_default(text, default) == IF text = None THEN default ELSE text[1]

\* lines 48-66: the outbound-definition path
check_fn_item(it) ==
    IF it.kind = "Fn"
    THEN LET snippet == snippet_with_default(it.snippet, DefaultSnip)
             parts == split_once(snippet, KwFn)
         IN IF parts # None /\ str_contains(parts[1].before, ExternC)
            THEN lint_fn_inputs(it.inputs, 1)
            ELSE <<>>
    ELSE <<>>

\* lines 68-95: the inbound-declaration path
check_foreign_mod(it) ==
    IF it.kind = "ForeignMod" /\ it.abi \in {"C", "C-unwind"}
    THEN lint_foreign_items(it.items, 1)
    ELSE <<>>

\* The function headers of the analysed program: the ABI in the HIR, whether
\* it was written out, and the source text of fn_sig.span (None: the host
\* cannot recover it).
SnipExternC == ExternC \o <<" ", "f", "n", " ", "f">>
SnipPubExternC == <<"p", "u", "b", " ">> \o ExternC \o <<" ", "f", "n", " ", "f">>
SnipRust == <<"f", "n", " ", "f">>
SnipExtern == <<"e", "x", "t", "e", "r", "n", " ", "f", "n", " ", "f">>
SnipUnwind == <<"e", "x", "t", "e", "r", "n", " ", "\"", "C", "-", "u", "n", "w", "i", "n", "d", "\"",
                " ", "f", "n", " ", "f">>
SnipTwoSpaces == <<"e", "x", "t", "e", "r", "n", " ", " ", "\"", "C", "\"", " ", "f", "n", " ", "f">>
SnipCallback == <<"f", "n", " ", "f", "(", "g", ":", " ">> \o ExternC \o <<" ", "f", "n", "(", ")", ")">>

FnHeaders ==
    { [abi |-> "C",        explicit |-> TRUE,  snippet |-> Some(SnipExternC)],
      [abi |-> "C",        explicit |-> TRUE,  snippet |-> Some(SnipPubExternC)],
      [abi |-> "C",        explicit |-> TRUE,  snippet |-> Some(SnipTwoSpaces)],
      [abi |-> "C",        explicit |-> FALSE, snippet |-> Some(SnipExtern)],
      [abi |-> "C-unwind", explicit |-> TRUE,  snippet |-> Some(SnipUnwind)],
      [abi |-> "Rust",     explicit |-> FALSE, snippet |-> Some(SnipRust)],
      [abi |-> "Rust",     explicit |-> FALSE, snippet |-> Some(SnipCallback)],
      [abi |-> "Rust",     explicit |-> FALSE, snippet |-> None] }

ParamLists == SeqsUpTo(HirTys, MaxParams)

ForeignItems ==
    {[kind |-> "Fn", inputs |-> ins] : ins \in ParamLists}
        \cup {[kind |-> "Static", inputs |-> <<>>]}


Items ==
    {[kind |-> "Fn", abi |-> h.abi, explicit |-> h.explicit, snippet |-> h.snippet,
      inputs |-> ins, items |-> <<>>] : h \in FnHeaders, ins \in ParamLists}
    \cup {[kind |-> "ForeignMod", abi |-> a, explicit |-> TRUE, snippet |-> None,
           inputs |-> <<>>, items |-> fis] :
              a \in {"C", "C-unwind", "system"}, fis \in SeqsUpTo(ForeignItems, MaxItems)}
    \cup {[kind |-> "Struct", abi |-> "None", explicit |-> FALSE, snippet |-> None,
           inputs |-> <<>>, items |-> <<>>]}

(***************************************************************************)
(* GuidelineLints (guidelines/mod.rs)                                      *)
(***************************************************************************)
ColonColon == <<":", ":">>
Libc == <<"l", "i", "b", "c">>

\* The configured names the model draws from.
N_cpy == <<"c", "p", "y">>
N_cat == <<"c", "a", "t">>
N_no == <<"n", "o">>
N_libc_cpy == Libc \o ColonColon \o N_cpy
N_a_b_f == <<"a", ":", ":", "b", ":", ":", "f">>
N_z_no == <<"z", ":", ":", "n", "o">>
ConfigNames == {N_cpy, N_cat, N_no, N_libc_cpy, N_a_b_f, N_z_no}

\* The definitions of the analysed program: two versions of libc::cpy (1, 2),
\* libc::cat (3), a::b::f (4), `cpy` and `no` declared in foreign blocks of
\* the analysed crate itself (5, 6), a function of the crate (7).
DefIds == 1..7

\* clippy_utils::def_path_def_ids: the dependencies' definitions with that
\* path, in the order the host yields them.
def_path_def_ids(path) ==
    IF path = <<Libc, N_cpy>> THEN <<1, 2>>
    ELSE IF path = <<Libc, N_cat>> THEN <<3>>
    ELSE IF path = <<<<"a">>, <<"b">>, <<"f">>>> THEN <<4>>
    ELSE <<>>

SeqRange(q) == {q[i] : i \in DOMAIN q}

libc_fn_def_id_mut(fn_name) ==
    LET ids == def_path_def_ids(<<Libc, fn_name>>)
    IN IF ids = <<>> THEN None ELSE Some(ids[Len(ids)])

\* lines 156-159: `.next()` of the matches of libc::<fn_name>
libc_fn_def_id(fn_name) ==
    LET ids == def_path_def_ids(<<Libc, fn_name>>)
    IN IF ids = <<>> THEN None ELSE Some(Head(ids))

\* lines 131-144: the loop over self.mem_uns_fns, from name i on
RECURSIVE resolve_names(_, _, _)
resolve_names(names, i, ids) ==
    IF i > Len(names) THEN ids
    ELSE LET uns_fns == names[i]
             did == libc_fn_def_id(uns_fns)
         IN resolve_names(names, i + 1,
                IF str_contains(uns_fns, ColonColon)
                THEN ids \cup SeqRange(def_path_def_ids(str_split(uns_fns, ColonColon)))
                ELSE IF did # None THEN ids \cup {did[1]} ELSE ids)

\* mem_unsafe_functions::check_foreign_item(item, names, ids): the set it
\* leaves behind.  Line 148 lends it the item, the configured names and the
\* set mutably.  The lint's documentation (lines 24-31) has the call of a
\* function declared in an `extern "C"` block of the crate reported, and
\* check_crate resolves dependencies only (line 133): the declarations of a
\* foreign block whose name is configured join the set.
check_foreign_item(it, names, ids) ==
    IF it.kind = "ForeignMod"
    THEN ids \cup {it.dids[k] : k \in {j \in DOMAIN it.names : it.names[j] \in SeqRange(names)}}
    ELSE ids

\* mem_unsafe_functions::check(cx, expr, ids): a call whose callee resolves to
\* a member of the set is reported at the call's span.
mem_unsafe_functions_check(e, ids) ==
    IF e.kind = "Call" /\ e.callee # None /\ e.callee[1] \in ids
    THEN <<[lint |-> "MEM_UNSAFE_FUNCTIONS", span |-> e.span]>>
    ELSE <<>>

\* The items and expressions the host hands to GuidelineLints.
GuidelineItems ==
    { [kind |-> "ForeignMod", names |-> <<N_cpy>>, dids |-> <<5>>],
      [kind |-> "ForeignMod", names |-> <<N_no>>, dids |-> <<6>>],
      [kind |-> "Fn", names |-> <<>>, dids |-> <<>>],
      [kind |-> "Struct", names |-> <<>>, dids |-> <<>>] }

Spans == 1..2

GuidelineExprs ==
    [kind : {"Call"}, callee : {None} \cup {Some(d) : d \in DefIds}, span : Spans]
        \cup [kind : {"Lit"}, callee : {None}, span : Spans]


\* lines 129-145
GuidelineLints_check_crate ==
    /\ pc = "crate"
    /\ mem_uns_fns_ty_ids' = resolve_names(mem_uns_fns, 1, mem_uns_fns_ty_ids)
    /\ findings' = <<>>
    /\ last' = [op |-> "check_crate", kind |-> "None", callee |-> None, span |-> 0]
    /\ pc' = "visit"
    /\ UNCHANGED <<item, mem_uns_fns, msrv, expr, pat, range>>

\* lines 147-149
GuidelineLints_check_item ==
    /\ pc = "visit"
    /\ \E it \in GuidelineItems :
          /\ mem_uns_fns_ty_ids' = check_foreign_item(it, mem_uns_fns, mem_uns_fns_ty_ids)
          /\ last' = [op |-> "check_item", kind |-> it.kind, callee |-> None, span |-> 0]
    /\ findings' = <<>>
    /\ UNCHANGED <<pc, item, mem_uns_fns, msrv, expr, pat, range>>

\* lines 151-153
GuidelineLints_check_expr ==
    /\ pc = "visit"
    /\ \E e \in GuidelineExprs :
          /\ findings' = mem_unsafe_functions_check(e, mem_uns_fns_ty_ids)
          /\ last' = [op |-> "check_expr", kind |-> e.kind, callee |-> e.callee, span |-> e.span]
    /\ UNCHANGED <<pc, item, mem_uns_fns, mem_uns_fns_ty_ids, msrv, expr, pat, range>>

\* lines 118-127
GuidelineLints_check_fn ==
    /\ pc = "visit"
    /\ findings' = <<>>
    /\ last' = [op |-> "check_fn", kind |-> "None", callee |-> None, span |-> 0]
    /\ UNCHANGED <<pc, item, mem_uns_fns, mem_uns_fns_ty_ids, msrv, expr, pat, range>>

\* lines 102-107: GuidelineLints::new, before the host's first callback
InitGuideline ==
    /\ pc = "crate"
    /\ item = NoItem
    /\ findings = <<>>
    /\ mem_uns_fns \in SeqsUpTo(ConfigNames, MaxNames)
    /\ mem_uns_fns_ty_ids = {}
    /\ last = NoCallback
    /\ msrv = None
    /\ expr = NoExpr
    /\ pat = Wild
    /\ range = "Otherwise"

NextGuideline ==
    \/ GuidelineLints_check_crate
    \/ GuidelineLints_check_item
    \/ GuidelineLints_check_expr
    \/ GuidelineLints_check_fn

SpecGuideline == InitGuideline /\ [][NextGuideline]_vars

(***************************************************************************)
(* ManualIsAsciiCheck (manual_is_ascii_check.rs)                           *)
(***************************************************************************)
\* clippy_utils::msrvs: the minor version since which char::is_ascii_digit
\* exists (1.24.0) and since which it is usable in constants (1.47.0).
IS_ASCII_DIGIT == 24
IS_ASCII_DIGIT_CONST == 47

\* The configured minimum supported Rust version: none, or 1.<minor>.0.
Msrvs == {None, Some(23), Some(24), Some(46), Some(47)}

\* clippy_utils::meets_msrv: no configured version meets every threshold.
meets_msrv(m, lint_msrv) == m = None \/ m[1] >= lint_msrv

\* Literal endpoints: Char('x') or Byte(b'x').
Lit(k, v) == Some([kind |-> "Lit", node |-> [kind |-> k, val |-> v]])
\* An endpoint that is a path to a constant, not a literal.
PathEnd == Some([kind |-> "Path", node |-> [kind |-> "None", val |-> ""]])

Range(start, end, end_kind) ==
    [kind |-> "Range", start |-> start, end |-> end, end_kind |-> end_kind, pats |-> <<>>]
Or(pats) == [kind |-> "Or", start |-> None, end |-> None, end_kind |-> "None", pats |-> pats]

check_range_mut(start, end) ==
    IF start.kind = "Lit" /\ end.kind = "Lit"
    THEN LET a == start.node.val
             b == end.node.val
         IN IF a = "a" /\ b = "z" THEN "LowerChar"
            ELSE IF a = "A" /\ b = "Z" THEN "UpperChar"
            ELSE IF a = "0" /\ b = "9" THEN "Digit"
            ELSE "Otherwise"
    ELSE "Otherwise"

\* lines 137-149
check_range(start, end) ==
    IF start.kind = "Lit" /\ end.kind = "Lit"
    THEN LET s == start.node
             e == end.node
             both(k, a, b) == s.kind = k /\ s.val = a /\ e.kind = k /\ e.val = b
         IN IF both("Char", "a", "z") \/ both("Byte", "a", "z") THEN "LowerChar"
            ELSE IF both("Char", "A", "Z") \/ both("Byte", "A", "Z") THEN "UpperChar"
            ELSE IF both("Char", "0", "9") \/ both("Byte", "0", "9") THEN "Digit"
            ELSE "Otherwise"
    ELSE "Otherwise"

\* line 126 without the length test
or_ranges_mut(ranges) ==
    IF "UpperChar" \in SeqRange(ranges) /\ "LowerChar" \in SeqRange(ranges)
    THEN "FullChar" ELSE "Otherwise"

\* lines 126-130: the shape of an or-pattern from its alternatives' shapes
or_ranges(ranges) ==
    IF Len(ranges) = 2 /\ "UpperChar" \in SeqRange(ranges) /\ "LowerChar" \in SeqRange(ranges)
    THEN "FullChar" ELSE "Otherwise"

\* lines 121-135
RECURSIVE check_pat(_)
check_pat(pat_kind) ==
    IF pat_kind.kind = "Or"
    THEN or_ranges([i \in DOMAIN pat_kind.pats |-> check_pat(pat_kind.pats[i])])
    ELSE IF /\ pat_kind.kind = "Range"
            /\ pat_kind.start # None
            /\ pat_kind.end # None
            /\ pat_kind.end_kind = "Included"
    THEN check_range(pat_kind.start[1], pat_kind.end[1])
    ELSE "Otherwise"

\* lines 151-157: the macro is `matches!` when its diagnostic name says so
is_matches_macro(macro_call) == macro_call.diag # None /\ macro_call.diag[1] = "matches_macro"

\* lines 87-93
sugg_of(r) ==
    IF r = "UpperChar" THEN Some("is_ascii_uppercase")
    ELSE IF r = "LowerChar" THEN Some("is_ascii_lowercase")
    ELSE IF r = "FullChar" THEN Some("is_ascii_alphabetic")
    ELSE IF r = "Digit" THEN Some("is_ascii_digit")
    ELSE None

\* line 110: format!("{recv}.{sugg}()"), the text as a sequence of pieces
format_sugg(recv, sugg) == recv \o <<".", sugg, "()">>

gated_out_mut(m, in_constant) == ~meets_msrv(m, IS_ASCII_DIGIT_CONST)

\* lines 73-79: the two early returns
gated_out(m, in_constant) ==
    \/ ~meets_msrv(m, IS_ASCII_DIGIT)
    \/ in_constant /\ ~meets_msrv(m, IS_ASCII_DIGIT_CONST)

\* lines 94-112: the finding for a recognised shape
ascii_finding(e, sugg) ==
    LET default_snip == DefaultSnip
        recv == snippet_with_default(e.recv, default_snip)
        applicability == IF recv # default_snip THEN "MachineApplicable" ELSE "MaybeIncorrect"
    IN [lint |-> "MANUAL_IS_ASCII_CHECK", span |-> "macro_call",
        sugg |-> format_sugg(recv, sugg), app |-> applicability]

\* lines 72-116
check_expr(m, e) ==
    IF gated_out(m, e.in_const) THEN <<>>
    ELSE IF e.macro = None THEN <<>>
    ELSE IF is_matches_macro(e.macro[1]) /\ e.kind = "Match" /\ Len(e.arms) >= 1
    THEN LET sugg == sugg_of(check_pat(e.arms[1].pat))
         IN IF sugg # None THEN <<ascii_finding(e, sugg[1])>> ELSE <<>>
    ELSE <<>>

\* The patterns and expressions of the analysed program.
Starts == {None, PathEnd, Lit("Char", "a"), Lit("Char", "A"), Lit("Char", "0"),
           Lit("Byte", "a"), Lit("Byte", "A"), Lit("Byte", "0")}
Ends == {None, PathEnd, Lit("Char", "z"), Lit("Char", "Z"), Lit("Char", "9"), Lit("Char", "y"),
         Lit("Byte", "z"), Lit("Byte", "Z"), Lit("Byte", "9")}
RangePats == {Range(s, e, k) : s \in Starts, e \in Ends, k \in {"Included", "Excluded"}}

LowerPat == Range(Lit("Char", "a"), Lit("Char", "z"), "Included")
UpperPat == Range(Lit("Byte", "A"), Lit("Byte", "Z"), "Included")
DigitPat == Range(Lit("Char", "0"), Lit("Char", "9"), "Included")
LowerToY == Range(Lit("Char", "a"), Lit("Char", "y"), "Included")
LeafAlts == {LowerPat, UpperPat, DigitPat, LowerToY, Wild}
NestedOrs == {Or(<<a, b>>) : a, b \in {LowerPat, UpperPat}}
OrPats == {Or(q) : q \in SeqsUpTo(LeafAlts \cup NestedOrs, MaxAlts) \ {<<>>}}
Pats == RangePats \cup OrPats \cup {Wild}

\* The arms of a match: the first arm's pattern and guard vary, the others
\* are `_ => ..`.
ArmLists ==
    {<<>>} \cup
    {[i \in 1..n |-> IF i = 1 THEN [pat |-> p, guard |-> g] ELSE [pat |-> Wild, guard |-> FALSE]] :
        n \in 1..MaxArms, g \in BOOLEAN,
        p \in RangePats \cup {Wild, Or(<<LowerPat, UpperPat>>), Or(<<UpperPat, LowerPat>>),
                              Or(<<LowerPat, LowerPat>>), Or(<<LowerPat, UpperPat, DigitPat>>)}}

MatchesMacro == Some([diag |-> Some("matches_macro")])
Macros == {None, MatchesMacro, Some([diag |-> Some("assert_macro")]), Some([diag |-> None])}

\* The receiver's source text: `c`, `..`, or not recoverable.
RecvTexts == {Some(<<"c">>), Some(<<".", ".">>), None}

AsciiExprs ==
    [macro : Macros, kind : {"Match"}, arms : ArmLists, recv : RecvTexts, in_const : BOOLEAN]
        \cup [macro : Macros, kind : {"Lit"}, arms : {<<>>}, recv : {None}, in_const : BOOLEAN]

\* lines 72-116
ManualIsAsciiCheck_check_expr ==
    /\ pc = "expr"
    /\ findings' = check_expr(msrv, expr)
    /\ pc' = "done"
    /\ UNCHANGED <<item, mem_uns_fns, mem_uns_fns_ty_ids, last, msrv, expr, pat, range>>

\* clippy_utils::parse_msrv: the version an attribute's text names, if any.
parse_msrv(text) ==
    IF text = "1.23.0" THEN Some(23)
    ELSE IF text = "1.24.0" THEN Some(24)
    ELSE IF text = "1.46.0" THEN Some(46)
    ELSE IF text = "1.47.0" THEN Some(47)
    ELSE None

\* The #[clippy::msrv] attribute of a node: absent, without a string value,
\* or with one.
MsrvAttrs ==
    {None, Some(None)} \cup {Some(Some(t)) : t \in {"1.23.0", "1.24.0", "1.46.0", "1.47.0", "stable"}}

\* line 118, extract_msrv_attr!(LateContext): enter_lint_attrs overwrites
\* self.msrv with the parsed value of a node's msrv attribute; the host calls
\* it for the enclosing nodes before it visits the expression.
ManualIsAsciiCheck_enter_lint_attrs ==
    /\ pc = "expr"
    /\ \E a \in MsrvAttrs :
          msrv' = IF a # None /\ a[1] # None THEN parse_msrv(a[1][1]) ELSE msrv
    /\ UNCHANGED <<pc, item, findings, mem_uns_fns, mem_uns_fns_ty_ids, last, expr, pat, range>>

\* lines 53-55: ManualIsAsciiCheck::new, and the expression the host visits
InitAscii ==
    /\ pc = "expr"
    /\ item = NoItem
    /\ findings = <<>>
    /\ mem_uns_fns = <<>>
    /\ mem_uns_fns_ty_ids = {}
    /\ last = NoCallback
    /\ msrv \in Msrvs
    /\ expr \in AsciiExprs
    /\ pat = Wild
    /\ range = "Otherwise"

NextAscii ==
    \/ ManualIsAsciiCheck_enter_lint_attrs
    \/ ManualIsAsciiCheck_check_expr

SpecAscii == InitAscii /\ [][NextAscii]_vars

\* lines 121-135 applied to one pattern
check_pat_step ==
    /\ pc = "pat"
    /\ range' = check_pat(pat)
    /\ pc' = "done"
    /\ UNCHANGED <<item, findings, mem_uns_fns, mem_uns_fns_ty_ids, last, msrv, expr, pat>>

InitPat ==
    /\ pc = "pat"
    /\ item = NoItem
    /\ findings = <<>>
    /\ mem_uns_fns = <<>>
    /\ mem_uns_fns_ty_ids = {}
    /\ last = NoCallback
    /\ msrv = None
    /\ expr = NoExpr
    /\ pat \in Pats
    /\ range = "Otherwise"

NextPat == check_pat_step

SpecPat == InitPat /\ [][NextPat]_vars

(***************************************************************************)
(* ExternWithoutRepr: the callback                                         *)
(***************************************************************************)

\* lines 46-96
ExternWithoutRepr_check_item ==
    /\ pc = "item"
    /\ findings' = check_fn_item(item) \o check_foreign_mod(item)
    /\ pc' = "done"
    /\ UNCHANGED <<item, mem_uns_fns, mem_uns_fns_ty_ids, last, msrv, expr, pat, range>>

InitLayout ==
    /\ pc = "item"
    /\ item \in Items
    /\ findings = <<>>
    /\ mem_uns_fns = <<>>
    /\ mem_uns_fns_ty_ids = {}
    /\ last = NoCallback
    /\ msrv = None
    /\ expr = NoExpr
    /\ pat = Wild
    /\ range = "Otherwise"

NextLayout == ExternWithoutRepr_check_item

SpecLayout == InitLayout /\ [][NextLayout]_vars


(***************************************************************************)
(* Properties of ExternWithoutRepr, checked under SpecLayout               *)
(***************************************************************************)
\* One of the facets {packed, transparent, c-compatible, explicitly-aligned}.
HasLayoutFacet(adt) ==
    repr(adt).packed \/ repr(adt).transparent \/ repr(adt).c \/ repr(adt).align

\* A parameter whose type, pointers stripped, is an aggregate with none of
\* the four facets.
Offending(ty) == ty.base \in Adts /\ ~HasLayoutFacet(ty.base)

OffendingFindings(inputs) ==
    LET off == SelectSeq(inputs, Offending)
    IN [k \in DOMAIN off |-> ExternFinding(off[k].base)]

RECURSIVE OffendingOfItems(_)
OffendingOfItems(items) ==
    IF items = <<>> THEN <<>>
    ELSE (IF Head(items).kind = "Fn" THEN OffendingFindings(Head(items).inputs) ELSE <<>>)
         \o OffendingOfItems(Tail(items))

\* A function definition tagged `extern "C"` in its source.
OutboundC(it) == it.kind = "Fn" /\ it.abi = "C" /\ it.explicit
\* A foreign block with the C ABI.
InboundC(it) == it.kind = "ForeignMod" /\ it.abi = "C"

\* C1 (as claimed): after check_item on a C boundary, the findings are exactly
\* one per offending parameter occurrence, in order, each anchored at the
\* definition of the parameter's type.
C1_LayoutCompleteness ==
    pc = "done" =>
        /\ OutboundC(item) => findings = OffendingFindings(item.inputs)
        /\ InboundC(item) => findings = OffendingOfItems(item.items)

\* C7: check_item never emits a finding anchored at a type that has one of the
\* facets packed, transparent, c-compatible or explicitly-aligned, on either
\* path, by value or behind pointers.
C7_LayoutMonotonicity ==
    \A k \in DOMAIN findings :
        findings[k].lint = "EXTERN_WITHOUT_REPR" => ~HasLayoutFacet(findings[k].span)

\* An `extern "C"` definition taking a pointer to a c-compatible type was
\* checked and nothing was reported.
C7_Witness ==
    /\ pc = "done"
    /\ findings = <<>>
    /\ OutboundC(item)
    /\ item.snippet = Some(SnipExternC)
    /\ \E j \in DOMAIN item.inputs :
          item.inputs[j].depth > 0 /\ item.inputs[j].base = "ReprC"

(***************************************************************************)
(* Properties of GuidelineLints, checked under SpecGuideline               *)
(***************************************************************************)
\* What one configured name contributes: every definition at the full path of
\* a `::`-qualified name, the first definition at libc::<name> of a plain one.
Contribution(name) ==
    IF \E i \in 1..(Len(name) - 1) : name[i] = ":" /\ name[i + 1] = ":"
    THEN SeqRange(def_path_def_ids(str_split(name, ColonColon)))
    ELSE LET ids == def_path_def_ids(<<Libc, name>>)
         IN IF ids = <<>> THEN {} ELSE {ids[1]}

ExpectedSet(names) == UNION {Contribution(names[i]) : i \in DOMAIN names}

C8_ResolverFailOpen ==
    (pc = "visit" /\ last.op = "check_crate") =>
        /\ mem_uns_fns_ty_ids = ExpectedSet(mem_uns_fns)
        /\ mem_uns_fns = <<N_z_no, N_cpy>> => mem_uns_fns_ty_ids = {1}

\* check_crate has resolved the list <<z::no, cpy>>.
C8_Witness ==
    /\ pc = "visit"
    /\ last.op = "check_crate"
    /\ mem_uns_fns = <<N_z_no, N_cpy>>
    /\ mem_uns_fns_ty_ids = {1}

BaseMet == msrv = None \/ msrv[1] >= IS_ASCII_DIGIT
ConstMet == msrv = None \/ msrv[1] >= IS_ASCII_DIGIT_CONST
GatesMet == BaseMet /\ ConstMet

\* The expression is the match a `matches!` invocation expands to.
MatchesInvocation(e) ==
    e.macro = MatchesMacro /\ e.kind = "Match" /\ Len(e.arms) >= 1

IsLit(end, k, v) == end = Lit(k, v)

\* The method the endpoints of a range pattern call for, if any.
RangeMethod(p) ==
    IF p.kind # "Range" \/ p.end_kind # "Included" THEN None
    ELSE IF \E k \in {"Char", "Byte"} : IsLit(p.start, k, "a") /\ IsLit(p.end, k, "z")
    THEN Some("is_ascii_lowercase")
    ELSE IF \E k \in {"Char", "Byte"} : IsLit(p.start, k, "A") /\ IsLit(p.end, k, "Z")
    THEN Some("is_ascii_uppercase")
    ELSE IF \E k \in {"Char", "Byte"} : IsLit(p.start, k, "0") /\ IsLit(p.end, k, "9")
    THEN Some("is_ascii_digit")
    ELSE None

\* An or-pattern of exactly a lowercase and an uppercase range, in either order.
LowerUpperOr(p) ==
    /\ p.kind = "Or"
    /\ Len(p.pats) = 2
    /\ {RangeMethod(p.pats[1]), RangeMethod(p.pats[2])}
            = {Some("is_ascii_lowercase"), Some("is_ascii_uppercase")}

Recognized(p) == RangeMethod(p) # None \/ LowerUpperOr(p)

ReceiverText(e) == IF e.recv = None THEN DefaultSnip ELSE e.recv[1]

\* C2 (as claimed): with the gates met, a matches! invocation whose first arm
\* has a guard, or whose match has more than one arm, yields no finding.
C2_GuardOrMultiArmSilent ==
    (pc = "done" /\ GatesMet /\ MatchesInvocation(expr)
        /\ (expr.arms[1].guard \/ Len(expr.arms) > 1))
    => findings = <<>>

\* C4: with the gates met, a matches! invocation whose pattern is a range
\* yields one finding suggesting <receiver>.<method>() when the range is
\* inclusive with literal endpoints ('a','z'), ('A','Z') or ('0','9'), both
\* characters or both bytes, and no finding for any other range.
C4_RangeSuggestion ==
    (pc = "done" /\ GatesMet /\ MatchesInvocation(expr) /\ expr.arms[1].pat.kind = "Range")
    => LET m == RangeMethod(expr.arms[1].pat)
       IN IF m = None THEN findings = <<>>
          ELSE /\ Len(findings) = 1
               /\ findings[1].lint = "MANUAL_IS_ASCII_CHECK"
               /\ findings[1].sugg = ReceiverText(expr) \o <<".", m[1], "()">>

\* matches!(c, b'A'..=b'Z') was visited and c.is_ascii_uppercase() suggested.
C4_Witness ==
    /\ pc = "done"
    /\ GatesMet
    /\ MatchesInvocation(expr)
    /\ expr.arms[1].pat = UpperPat
    /\ expr.recv = Some(<<"c">>)
    /\ Len(findings) = 1
    /\ findings[1].sugg = <<"c", ".", "is_ascii_uppercase", "()">>

\* C5 (as claimed): a finding is safe-to-auto-apply exactly when the receiver's
\* text was recovered, whatever that text is; otherwise it is manual-review
\* and carries the placeholder.
C5_ConfidenceByRecovery ==
    (pc = "done" /\ findings # <<>>) =>
        /\ findings[1].app = "MachineApplicable" <=> expr.recv # None
        /\ expr.recv = None =>
              /\ findings[1].app = "MaybeIncorrect"
              /\ SubSeq(findings[1].sugg, 1, 2) = DefaultSnip

\* C6: nothing is reported below the base threshold; nothing is reported in
\* a constant context below the constant threshold; a recognised pattern of a
\* matches! invocation is reported whenever the base threshold is met and the
\* context is not constant or the constant threshold is met too.
C6_Gating ==
    pc = "done" =>
        /\ ~BaseMet => findings = <<>>
        /\ (expr.in_const /\ ~ConstMet) => findings = <<>>
        /\ (BaseMet /\ (~expr.in_const \/ ConstMet)
                /\ MatchesInvocation(expr) /\ Recognized(expr.arms[1].pat))
            => findings # <<>>

\* With msrv 1.24 (base met, constant threshold unmet) a recognised pattern
\* outside a constant context was reported.
C6_Witness ==
    /\ pc = "done"
    /\ msrv = Some(24)
    /\ ~expr.in_const
    /\ MatchesInvocation(expr)
    /\ expr.arms[1].pat = DigitPat
    /\ findings # <<>>

\* C10: check_pat gives an or-pattern the all-letters shape exactly when it
\* has two alternatives, one a lowercase range and the other an uppercase
\* range, in either order; any other or-pattern is no match.
C10_OrPattern ==
    (pc = "done" /\ pat.kind = "Or") =>
        /\ range = "FullChar" <=> LowerUpperOr(pat)
        /\ range \in {"FullChar", "Otherwise"}

\* check_pat classified `b'A'..=b'Z' | 'a'..='z'` as all letters.
C10_Witness ==
    /\ pc = "done"
    /\ pat = Or(<<UpperPat, LowerPat>>)
    /\ range = "FullChar"

=============================================================================
